---------------------------- MODULE Spec2Model ----------------------------
(***************************************************************************)
(* A model of the limit-order-book liquidity pipeline:                     *)
(*   src/src/microstructure.py   compute_book_metrics,                     *)
(*                               compute_liquidity_score,                  *)
(*                               classify_liquidity_regime,                *)
(*                               assess_liquidity_risk                     *)
(*   src/src/data_generation.py  generate_order_book_snapshot              *)
(*   src/ui/app.py               simulate_time_series                      *)
(*                                                                         *)
(* Python floats are modelled as exact rationals plus one NaN value: a     *)
(* number is a record [nan, n, d] with d > 0 and n/d in lowest terms.      *)
(* Rounding is not modelled; every comparison of the code is against a     *)
(* threshold, and the inputs are chosen on both sides of each threshold.   *)
(***************************************************************************)
EXTENDS Integers, Sequences, FiniteSets, TLC

VARIABLES
    pc,          \* position: "call"/"returned" for a single function call,
                 \* "idle"/"loop" for simulate_time_series
    args,        \* the arguments of the function under call
    ret,         \* what the call produced: [status, error, value]
    params,      \* simulate_time_series: n_steps, mid_start, drift_sigma, n_levels
    step,        \* simulate_time_series: iterations of the loop completed
    mid,         \* simulate_time_series: the running mid price
    spreads, mids, imbalances, liq_scores, regimes,   \* the five lists
    books,       \* the snapshot each completed step worked on (history)
    rng,         \* the state of numpy's global random generator
    results,     \* what the latest completed run returned to its caller
    earlier,     \* what some earlier completed run returned (history)
    drawn        \* numpy's generator was used since the last run returned (history)

vars == <<pc, args, ret, params, step, mid, spreads, mids, imbalances,
          liq_scores, regimes, books, rng, results, earlier, drawn>>

simVars == <<params, step, mid, spreads, mids, imbalances, liq_scores,
             regimes, books, rng, results, earlier, drawn>>

-----------------------------------------------------------------------------
(* Numbers *)

RECURSIVE GCD(_, _)
GCD(a, b) == IF b = 0 THEN a ELSE GCD(b, a % b)

AbsInt(x) == IF x < 0 THEN -x ELSE x

NaN == [nan |-> TRUE, n |-> 0, d |-> 1]

\* n/d in lowest terms, d > 0
R(n, d) ==
    LET g == GCD(AbsInt(n), d)
    IN  [nan |-> FALSE, n |-> n \div g, d |-> d \div g]

I(n) == R(n, 1)

Add(a, b) == IF a.nan \/ b.nan THEN NaN ELSE R(a.n * b.d + b.n * a.d, a.d * b.d)
Sub(a, b) == IF a.nan \/ b.nan THEN NaN ELSE R(a.n * b.d - b.n * a.d, a.d * b.d)
Mul(a, b) == IF a.nan \/ b.nan THEN NaN ELSE R(a.n * b.n, a.d * b.d)
\* a / b for b # 0
Div(a, b) ==
    IF a.nan \/ b.nan THEN NaN
    ELSE IF b.n > 0 THEN R(a.n * b.d, a.d * b.n)
    ELSE R(-(a.n * b.d), a.d * (-b.n))
Abs(a) == IF a.nan THEN NaN ELSE R(AbsInt(a.n), a.d)

\* comparisons: every comparison with NaN is false
Lt(a, b) == ~a.nan /\ ~b.nan /\ a.n * b.d < b.n * a.d
Gt(a, b) == Lt(b, a)
Le(a, b) == ~a.nan /\ ~b.nan /\ a.n * b.d <= b.n * a.d
Ge(a, b) == Le(b, a)

-----------------------------------------------------------------------------
(* What a call produces *)

NoValue == [none |-> TRUE]
NoRet == [status |-> "pending", error |-> "", value |-> NoValue]
Returned(v) == [status |-> "returned", error |-> "", value |-> v]
Raised(e) == [status |-> "raised", error |-> e, value |-> NoValue]

NoArgs == [fn |-> "none"]

-----------------------------------------------------------------------------
(* classify_liquidity_regime *)

Regimes == {"high_liquidity", "stressed", "one_sided_buy", "one_sided_sell", "normal"}

HighLiquidityCondWideSpread(spread, imbalance, liquidity_score) ==
    Gt(liquidity_score, I(500)) /\ Lt(Abs(imbalance), R(2, 10)) /\ Lt(spread, R(7, 10))

HighLiquidityCond(spread, imbalance, liquidity_score) ==
    Gt(liquidity_score, I(500)) /\ Lt(Abs(imbalance), R(2, 10)) /\ Lt(spread, R(3, 10))

StressedCond(spread, imbalance, liquidity_score) ==
    Lt(liquidity_score, I(150)) \/ Gt(spread, R(6, 10))

OneSidedBuyCond(spread, imbalance, liquidity_score) == Gt(imbalance, R(5, 10))

OneSidedSellCond(spread, imbalance, liquidity_score) == Lt(imbalance, R(-5, 10))

classify_one_sided_first(spread, imbalance, liquidity_score) ==
    IF HighLiquidityCond(spread, imbalance, liquidity_score) THEN "high_liquidity"
    ELSE IF OneSidedBuyCond(spread, imbalance, liquidity_score) THEN "one_sided_buy"
    ELSE IF StressedCond(spread, imbalance, liquidity_score) THEN "stressed"
    ELSE IF OneSidedSellCond(spread, imbalance, liquidity_score) THEN "one_sided_sell"
    ELSE "normal"

classify_liquidity_regime(spread, imbalance, liquidity_score) ==
    IF HighLiquidityCond(spread, imbalance, liquidity_score) THEN "high_liquidity"
    ELSE IF StressedCond(spread, imbalance, liquidity_score) THEN "stressed"
    ELSE IF OneSidedBuyCond(spread, imbalance, liquidity_score) THEN "one_sided_buy"
    ELSE IF OneSidedSellCond(spread, imbalance, liquidity_score) THEN "one_sided_sell"
    ELSE "normal"

-----------------------------------------------------------------------------
(* compute_liquidity_score *)

\* the denominator used when spread <= 0
FloorSpread == R(1, 1000000)

EffectiveSpreadNoFloor(spread) == spread

EffectiveSpread(spread) == IF Le(spread, I(0)) THEN FloorSpread ELSE spread

\* float(total_depth / spread) after the floor; the denominator is never 0
\* (a NaN spread fails spread <= 0, stays, and makes the quotient NaN)
compute_liquidity_score(spread, total_depth) ==
    LET s == EffectiveSpread(spread)
    IN  IF s.nan \/ total_depth.nan THEN NaN
        ELSE IF s.n = 0 THEN NaN   \* no zero denominator: spread <= 0 was replaced
        ELSE Div(total_depth, s)

-----------------------------------------------------------------------------
(* compute_book_metrics *)

\* A book is a sequence of rows [side, price, size]: the DataFrame's rows.
Side(book, sd) == {k \in DOMAIN book : book[k].side = sd}

\* Series.max() / Series.min(): NaN on an empty selection
PriceMax(book, rows) ==
    IF rows = {} THEN NaN
    ELSE book[CHOOSE k \in rows : \A j \in rows : Le(book[j].price, book[k].price)].price

PriceMin(book, rows) ==
    IF rows = {} THEN NaN
    ELSE book[CHOOSE k \in rows : \A j \in rows : Ge(book[j].price, book[k].price)].price

\* Series.sum(): 0 on an empty selection
RECURSIVE SizeSum(_, _)
SizeSum(book, rows) ==
    IF rows = {} THEN 0
    ELSE LET k == CHOOSE x \in rows : TRUE
         IN  book[k].size + SizeSum(book, rows \ {k})

ImbalanceOfAbsolute(bid_depth, ask_depth) ==
    LET total_depth == bid_depth + ask_depth
    IN  IF total_depth > 0 THEN R(bid_depth, total_depth) ELSE I(0)

ImbalanceOf(bid_depth, ask_depth) ==
    LET total_depth == bid_depth + ask_depth
    IN  IF total_depth > 0 THEN R(bid_depth - ask_depth, total_depth) ELSE I(0)

\* The function never validates its input and never raises: it returns for every book.
compute_book_metrics(book) ==
    LET bids == Side(book, "bid")
        asks == Side(book, "ask")
        best_bid == PriceMax(book, bids)
        best_ask == PriceMin(book, asks)
        bid_depth == SizeSum(book, bids)
        ask_depth == SizeSum(book, asks)
    IN  Returned([best_bid |-> best_bid,
                  best_ask |-> best_ask,
                  spread |-> Sub(best_ask, best_bid),
                  mid |-> Div(Add(best_bid, best_ask), I(2)),
                  bid_depth |-> bid_depth,
                  ask_depth |-> ask_depth,
                  total_depth |-> bid_depth + ask_depth,
                  imbalance |-> ImbalanceOf(bid_depth, ask_depth)])

-----------------------------------------------------------------------------
(* assess_liquidity_risk *)

\* seq[-lookback:] with Python's slice rules: a negative start counts from
\* the end, and the start is clamped to 0 .. len(seq)
SliceStart(len, lookback) ==
    LET start == -lookback
        fromEnd == IF start < 0 THEN start + len ELSE start
    IN  IF fromEnd < 0 THEN 0 ELSE IF fromEnd > len THEN len ELSE fromEnd

SliceHead(seq, lookback) ==
    LET n == IF lookback < 0 THEN 0
             ELSE IF lookback > Len(seq) THEN Len(seq) ELSE lookback
    IN  SubSeq(seq, 1, n)

SliceTail(seq, lookback) == SubSeq(seq, SliceStart(Len(seq), lookback) + 1, Len(seq))

RECURSIVE SumSeq(_)
SumSeq(seq) == IF seq = <<>> THEN I(0) ELSE Add(seq[1], SumSeq(Tail(seq)))

Count(seq, label) == Cardinality({k \in DOMAIN seq : seq[k] = label})

RiskLevelMediumFirst(frac_stressed, avg_spread, avg_liq_score) ==
    IF Gt(frac_stressed, R(2, 10)) \/ Gt(avg_spread, R(5, 10)) \/ Lt(avg_liq_score, I(250))
    THEN "medium"
    ELSE IF Gt(frac_stressed, R(4, 10)) \/ Gt(avg_spread, R(8, 10)) \/ Lt(avg_liq_score, I(150))
    THEN "high"
    ELSE "low"

RiskLevel(frac_stressed, avg_spread, avg_liq_score) ==
    IF Gt(frac_stressed, R(4, 10)) \/ Gt(avg_spread, R(8, 10)) \/ Lt(avg_liq_score, I(150))
    THEN "high"
    ELSE IF Gt(frac_stressed, R(2, 10)) \/ Gt(avg_spread, R(5, 10)) \/ Lt(avg_liq_score, I(250))
    THEN "medium"
    ELSE "low"

\* Each of the four quotients divides by the length of its own tail; an empty
\* tail is a division by zero, which Python raises as ZeroDivisionError.
assess_liquidity_risk(spreads_, liq_scores_, regimes_, lookback) ==
    LET spreads_tail == SliceTail(spreads_, lookback)
        liq_tail == SliceTail(liq_scores_, lookback)
        regimes_tail == SliceTail(regimes_, lookback)
    IN  IF spreads_tail = <<>> \/ regimes_tail = <<>> \/ liq_tail = <<>>
        THEN Raised("ZeroDivisionError")
        ELSE LET avg_spread == Div(SumSeq(spreads_tail), I(Len(spreads_tail)))
                 frac_stressed == R(Count(regimes_tail, "stressed"), Len(regimes_tail))
                 frac_high_liq == R(Count(regimes_tail, "high_liquidity"), Len(regimes_tail))
                 avg_liq_score == Div(SumSeq(liq_tail), I(Len(liq_tail)))
             IN  Returned([lookback |-> lookback,
                           avg_spread |-> avg_spread,
                           avg_liq_score |-> avg_liq_score,
                           frac_stressed |-> frac_stressed,
                           frac_high_liq |-> frac_high_liq,
                           risk_level |-> RiskLevel(frac_stressed, avg_spread, avg_liq_score)])

-----------------------------------------------------------------------------
(* The state of simulate_time_series between runs *)

NoParams == [n_steps |-> 0, mid_start |-> I(0), drift_sigma |-> I(0), n_levels |-> 0]

NoRun == [done |-> FALSE, params |-> NoParams, after_draws |-> FALSE,
          spreads |-> <<>>, mids |-> <<>>, imbalances |-> <<>>,
          liq_scores |-> <<>>, regimes |-> <<>>]

NoLocals ==
    /\ params = NoParams
    /\ step = 0
    /\ mid = I(0)
    /\ spreads = <<>> /\ mids = <<>> /\ imbalances = <<>>
    /\ liq_scores = <<>> /\ regimes = <<>>
    /\ books = <<>>

SimIdle ==
    /\ NoLocals
    /\ rng = 0
    /\ results = NoRun
    /\ earlier = NoRun
    /\ drawn = FALSE

-----------------------------------------------------------------------------
(* One call of classify_liquidity_regime on arbitrary inputs *)

Hundredths(S) == {R(x, 100) : x \in S}

SpreadInputs == Hundredths({-10, 0, 29, 30, 31, 59, 60, 61}) \cup {NaN}
ImbalanceInputs ==
    Hundredths({-100, -51, -50, -49, -21, -20, -19, 0, 19, 20, 21, 49, 50, 51, 100})
        \cup {NaN}
ScoreInputs == {I(x) : x \in {0, 149, 150, 151, 499, 500, 501, 1000}} \cup {NaN}

InitClassify ==
    /\ pc = "call"
    /\ args \in [fn : {"classify_liquidity_regime"}, spread : SpreadInputs,
                 imbalance : ImbalanceInputs, liquidity_score : ScoreInputs]
    /\ ret = NoRet
    /\ SimIdle

CallClassify ==
    /\ pc = "call"
    /\ args.fn = "classify_liquidity_regime"
    /\ ret' = Returned(classify_liquidity_regime(args.spread, args.imbalance,
                                                 args.liquidity_score))
    /\ pc' = "returned"
    /\ UNCHANGED <<args, simVars>>

NextClassify == CallClassify

SpecClassify == InitClassify /\ [][NextClassify]_vars

-----------------------------------------------------------------------------
(* One call of compute_liquidity_score on arbitrary inputs *)

MaxDepth == 3

SpreadArgs == SpreadInputs \cup {R(-1, 1000000), R(1, 1000000), I(5)}
DepthInputs == {I(x) : x \in 0 .. MaxDepth} \cup {R(1, 2), I(70)}

InitScore ==
    /\ pc = "call"
    /\ args \in [fn : {"compute_liquidity_score"}, spread : SpreadArgs,
                 total_depth : DepthInputs]
    /\ ret = NoRet
    /\ SimIdle

CallScore ==
    /\ pc = "call"
    /\ args.fn = "compute_liquidity_score"
    /\ ret' = Returned(compute_liquidity_score(args.spread, args.total_depth))
    /\ pc' = "returned"
    /\ UNCHANGED <<args, simVars>>

NextScore == CallScore

SpecScore == InitScore /\ [][NextScore]_vars

-----------------------------------------------------------------------------
(* One call of compute_book_metrics on an arbitrary book *)

MaxRows == 3
MaxSize == 2

\* prices on both sides of each other, so that books may be crossed or locked
PriceInputs == {R(999, 10), R(1001, 10)}
Rows == [side : {"bid", "ask"}, price : PriceInputs, size : 0 .. MaxSize]
BookInputs == UNION {[1 .. n -> Rows] : n \in 0 .. MaxRows}

InitBook ==
    /\ pc = "call"
    /\ args \in [fn : {"compute_book_metrics"}, book : BookInputs]
    /\ ret = NoRet
    /\ SimIdle

CallBook ==
    /\ pc = "call"
    /\ args.fn = "compute_book_metrics"
    /\ ret' = compute_book_metrics(args.book)
    /\ pc' = "returned"
    /\ UNCHANGED <<args, simVars>>

NextBook == CallBook

SpecBook == InitBook /\ [][NextBook]_vars

-----------------------------------------------------------------------------
(* One call of assess_liquidity_risk on arbitrary sequences *)

MaxSeqLen == 3

SeqsUpTo(S, n) == UNION {[1 .. k -> S] : k \in 0 .. n}

SpreadSeries == SeqsUpTo({R(2, 10), R(9, 10)}, MaxSeqLen)
ScoreSeries == SeqsUpTo({I(100), I(300)}, MaxSeqLen)
RegimeSeries == SeqsUpTo({"stressed", "high_liquidity", "normal"}, MaxSeqLen)
Lookbacks == -1 .. MaxSeqLen + 1

InitRisk ==
    /\ pc = "call"
    /\ args \in [fn : {"assess_liquidity_risk"}, spreads : SpreadSeries,
                 liq_scores : ScoreSeries, regimes : RegimeSeries,
                 lookback : Lookbacks]
    /\ ret = NoRet
    /\ SimIdle

CallRisk ==
    /\ pc = "call"
    /\ args.fn = "assess_liquidity_risk"
    /\ ret' = assess_liquidity_risk(args.spreads, args.liq_scores, args.regimes,
                                    args.lookback)
    /\ pc' = "returned"
    /\ UNCHANGED <<args, simVars>>

NextRisk == CallRisk

SpecRisk == InitRisk /\ [][NextRisk]_vars

-----------------------------------------------------------------------------
(* numpy's global random generator *)

\* The generator is a deterministic function of its state: a small linear
\* congruential generator stands for it.
RngModulus == 8

RngNext(s) == (5 * s + 3) % RngModulus

RECURSIVE RngAfter(_, _)
RngAfter(s, k) == IF k = 0 THEN s ELSE RngAfter(RngNext(s), k - 1)

\* np.random.seed(seed): the state becomes a function of the seed alone
NpRandomSeed(seed) == seed % RngModulus

\* np.random.normal(0, sigma), read off the state s the draw leaves
NpRandomNormal(s, sigma) == Mul(sigma, I((s % 5) - 2))

\* one element of np.random.randint(low, high, ...), read off the state s
NpRandomRandint(s, low, high) == low + (s % (high - low))

-----------------------------------------------------------------------------
(* generate_order_book_snapshot *)

RandintLow == 10
RandintHigh == 50

\* n_levels bid rows, then n_levels ask rows; the bid sizes are drawn first.
\* Result: the book and the state the generator is left in.
generate_order_book_snapshot(mid_, n_levels, s) ==
    LET bid_prices == [k \in 1 .. n_levels |-> Sub(mid_, Mul(I(k), R(1, 10)))]
        ask_prices == [k \in 1 .. n_levels |-> Add(mid_, Mul(I(k), R(1, 10)))]
        bid_sizes == [k \in 1 .. n_levels |->
                         NpRandomRandint(RngAfter(s, k), RandintLow, RandintHigh)]
        ask_sizes == [k \in 1 .. n_levels |->
                         NpRandomRandint(RngAfter(s, n_levels + k), RandintLow, RandintHigh)]
    IN  [book |-> [k \in 1 .. 2 * n_levels |->
                     IF k <= n_levels
                     THEN [side |-> "bid", price |-> bid_prices[k], size |-> bid_sizes[k]]
                     ELSE [side |-> "ask", price |-> ask_prices[k - n_levels],
                           size |-> ask_sizes[k - n_levels]]],
         rng |-> RngAfter(s, 2 * n_levels)]

-----------------------------------------------------------------------------
(* simulate_time_series *)

MaxSteps == 3

StepInputs == 0 .. MaxSteps
LevelInputs == {0, 1, 2}
MidStartInputs == {I(100)}
SigmaInputs == {R(1, 50)}

ParamInputs == [n_steps : StepInputs, mid_start : MidStartInputs,
                drift_sigma : SigmaInputs, n_levels : LevelInputs]

\* the generator's state when the loop is entered
RngAtRunStartUnseeded(s) == s

RngAtRunStart(s) == NpRandomSeed(0)

\* What one iteration of the loop computes before it appends.
StepValues(mid_, p, s) ==
    LET s1 == RngNext(s)
        new_mid == Add(mid_, NpRandomNormal(s1, p.drift_sigma))
        snap == generate_order_book_snapshot(new_mid, p.n_levels, s1)
        metrics == compute_book_metrics(snap.book).value
        liq_score == compute_liquidity_score(metrics.spread, I(metrics.total_depth))
    IN  [mid |-> new_mid,
         rng |-> snap.rng,
         book |-> snap.book,
         spread |-> metrics.spread,
         midprice |-> metrics.mid,
         imbalance |-> metrics.imbalance,
         liq_score |-> liq_score,
         regime |-> classify_liquidity_regime(metrics.spread, metrics.imbalance,
                                              liq_score)]

\* the call: empty lists, the generator seeded, mid = mid_start
StartSimulation ==
    /\ pc = "idle"
    /\ \E p \in ParamInputs :
        /\ params' = p
        /\ mid' = p.mid_start
    /\ spreads' = <<>> /\ mids' = <<>> /\ imbalances' = <<>>
    /\ liq_scores' = <<>> /\ regimes' = <<>>
    /\ books' = <<>>
    /\ step' = 0
    /\ rng' = RngAtRunStart(rng)
    /\ earlier' \in {earlier, results}
    /\ pc' = "loop"
    /\ UNCHANGED <<args, ret, results, drawn>>

\* a variant of Step that records a regime only when it is not "normal"
StepSkippingNormal ==
    /\ pc = "loop"
    /\ step < params.n_steps
    /\ LET v == StepValues(mid, params, rng)
       IN  /\ mid' = v.mid
           /\ rng' = v.rng
           /\ books' = Append(books, v.book)
           /\ spreads' = Append(spreads, v.spread)
           /\ mids' = Append(mids, v.midprice)
           /\ imbalances' = Append(imbalances, v.imbalance)
           /\ liq_scores' = Append(liq_scores, v.liq_score)
           /\ regimes' = IF v.regime = "normal" THEN regimes
                         ELSE Append(regimes, v.regime)
    /\ step' = step + 1
    /\ UNCHANGED <<pc, args, ret, params, results, earlier, drawn>>

\* one iteration of the loop
Step ==
    /\ pc = "loop"
    /\ step < params.n_steps
    /\ LET v == StepValues(mid, params, rng)
       IN  /\ mid' = v.mid
           /\ rng' = v.rng
           /\ books' = Append(books, v.book)
           /\ spreads' = Append(spreads, v.spread)
           /\ mids' = Append(mids, v.midprice)
           /\ imbalances' = Append(imbalances, v.imbalance)
           /\ liq_scores' = Append(liq_scores, v.liq_score)
           /\ regimes' = Append(regimes, v.regime)
    /\ step' = step + 1
    /\ UNCHANGED <<pc, args, ret, params, results, earlier, drawn>>

\* the loop is exhausted: the five lists go to the caller
ReturnSeries ==
    /\ pc = "loop"
    /\ step >= params.n_steps
    /\ results' = [done |-> TRUE, params |-> params, after_draws |-> drawn,
                   spreads |-> spreads, mids |-> mids, imbalances |-> imbalances,
                   liq_scores |-> liq_scores, regimes |-> regimes]
    /\ params' = NoParams
    /\ step' = 0
    /\ mid' = I(0)
    /\ spreads' = <<>> /\ mids' = <<>> /\ imbalances' = <<>>
    /\ liq_scores' = <<>> /\ regimes' = <<>>
    /\ books' = <<>>
    /\ drawn' = FALSE
    /\ pc' = "idle"
    /\ UNCHANGED <<args, ret, rng, earlier>>

\* any other use of np.random between two runs
OtherDraw ==
    /\ pc = "idle"
    /\ rng' = RngNext(rng)
    /\ drawn' = TRUE
    /\ UNCHANGED <<pc, args, ret, params, step, mid, spreads, mids, imbalances,
                   liq_scores, regimes, books, results, earlier>>

\* numpy seeds its generator from the operating system at import
Init ==
    /\ pc = "idle"
    /\ args = NoArgs
    /\ ret = NoRet
    /\ NoLocals
    /\ rng \in 0 .. RngModulus - 1
    /\ results = NoRun
    /\ earlier = NoRun
    /\ drawn = FALSE

Next == StartSimulation \/ Step \/ ReturnSeries \/ OtherDraw

Spec == Init /\ [][Next]_vars

-----------------------------------------------------------------------------
(* Properties of simulate_time_series, under Spec *)

Lists == <<spreads, mids, imbalances, liq_scores, regimes>>

SeriesOf(run) == <<run.spreads, run.mids, run.imbalances, run.liq_scores, run.regimes>>

\* what the pipeline derives from one snapshot
DerivedFrom(book) ==
    LET m == compute_book_metrics(book).value
        q == compute_liquidity_score(m.spread, I(m.total_depth))
    IN  <<m.spread, m.mid, m.imbalance, q,
          classify_liquidity_regime(m.spread, m.imbalance, q)>>

\* C8: after every completed step the five lists have the same length, the
\* number of steps executed so far, and index i of each holds the value
\* derived from the snapshot of step i (so earlier entries are never changed);
\* a run that returns for step count n returns five lists of length n.
C8_LockStep ==
    /\ \A j \in DOMAIN Lists : Len(Lists[j]) = step
    /\ Len(books) = step
    /\ \A i \in 1 .. step :
          <<spreads[i], mids[i], imbalances[i], liq_scores[i], regimes[i]>>
              = DerivedFrom(books[i])
    /\ results.done =>
          \A j \in 1 .. 5 : Len(SeriesOf(results)[j]) = results.params.n_steps

\* A run in its loop with two steps done and one to go.
C8_Witness ==
    /\ pc = "loop"
    /\ step = 2 /\ params.n_steps > 2 /\ params.n_levels >= 1
    /\ Len(regimes) = 2
    /\ books[1] # books[2]

\* C9: two completed runs of simulate_time_series with the same (n_steps,
\* mid_start, drift_sigma, n_levels) returned identical spreads, mids,
\* imbalances, liq_scores and regimes, whatever was drawn from the generator
\* and whichever runs happened between them.
C9_Reproducible ==
    results.done /\ earlier.done /\ results.params = earlier.params
        => SeriesOf(results) = SeriesOf(earlier)

\* Two runs with the same arguments, the later one entered after other draws.
C9_Witness ==
    /\ results.done /\ earlier.done
    /\ results.params = earlier.params
    /\ results.after_draws
    /\ results.params.n_steps >= 2 /\ results.params.n_levels >= 1
    /\ results.spreads # <<>>
    /\ SeriesOf(results) = SeriesOf(earlier)

-----------------------------------------------------------------------------
(* Properties of classify_liquidity_regime, under SpecClassify *)

ClassifyReturned == pc = "returned" /\ args.fn = "classify_liquidity_regime"

\* The rules as the specification lists them, in its order.
RuleOrder == <<"high_liquidity", "stressed", "one_sided_buy", "one_sided_sell">>

RuleMatches(label, spread, imbalance, score) ==
    CASE label = "high_liquidity" ->
            Gt(score, I(500)) /\ Lt(Abs(imbalance), R(1, 5)) /\ Lt(spread, R(3, 10))
      [] label = "stressed" -> Lt(score, I(150)) \/ Gt(spread, R(3, 5))
      [] label = "one_sided_buy" -> Gt(imbalance, R(1, 2))
      [] label = "one_sided_sell" -> Lt(imbalance, R(-1, 2))

FirstMatch(spread, imbalance, score) ==
    LET hits == {k \in DOMAIN RuleOrder : RuleMatches(RuleOrder[k], spread, imbalance, score)}
    IN  IF hits = {} THEN "normal"
        ELSE RuleOrder[CHOOSE k \in hits : \A j \in hits : k <= j]

\* C1: classify_liquidity_regime returns, for every (spread, imbalance,
\* liquidity_score), exactly one of the five labels: the label of the first
\* rule that matches in the order high_liquidity, stressed, one_sided_buy,
\* one_sided_sell, and normal when none matches.  The result is a function of
\* the three arguments alone (the operator reads no variable), which is what
\* makes a repeated call agree.
C1_FirstMatchWins ==
    ClassifyReturned =>
        /\ ret.status = "returned"
        /\ ret.value \in Regimes
        /\ ret.value = FirstMatch(args.spread, args.imbalance, args.liquidity_score)

\* Two rules match and the earlier one decides.
C1_Witness ==
    /\ ClassifyReturned
    /\ RuleMatches("stressed", args.spread, args.imbalance, args.liquidity_score)
    /\ RuleMatches("one_sided_buy", args.spread, args.imbalance, args.liquidity_score)
    /\ ret.value = "stressed"

\* C10 as stated: some input satisfies the high_liquidity condition and the
\* stressed condition at once (and is labelled high_liquidity by rule order).
C10_ConditionsOverlap ==
    \E s \in SpreadInputs, m \in ImbalanceInputs, q \in ScoreInputs :
        /\ RuleMatches("high_liquidity", s, m, q)
        /\ RuleMatches("stressed", s, m, q)
        /\ (ClassifyReturned /\ args.spread = s /\ args.imbalance = m
               /\ args.liquidity_score = q => ret.value = "high_liquidity")

\* C10 amended: the high_liquidity condition and the stressed condition never
\* hold together (score > 500 excludes score < 150, spread < 0.3 excludes
\* spread > 0.6), so an input that meets the stressed condition is labelled
\* stressed and one that meets the high_liquidity condition high_liquidity,
\* whichever of the two rules is evaluated first.
C10_ConditionsExclusive ==
    ClassifyReturned =>
        LET high == HighLiquidityCond(args.spread, args.imbalance, args.liquidity_score)
            stressed == StressedCond(args.spread, args.imbalance, args.liquidity_score)
        IN  /\ ~(high /\ stressed)
            /\ stressed => ret.value = "stressed"
            /\ high => ret.value = "high_liquidity"

\* A stressed input whose imbalance is neutral: only the score and spread
\* parts of rule 1 keep it from matching.
C10_Witness ==
    /\ ClassifyReturned
    /\ StressedCond(args.spread, args.imbalance, args.liquidity_score)
    /\ Lt(Abs(args.imbalance), R(1, 5))
    /\ Gt(args.spread, R(3, 5))
    /\ Gt(args.liquidity_score, I(500))
    /\ ret.value = "stressed"

-----------------------------------------------------------------------------
(* Properties of compute_liquidity_score, under SpecScore *)

ScoreReturned == pc = "returned" /\ args.fn = "compute_liquidity_score"

\* C6 as stated: the score is strictly positive for every non-negative
\* total_depth and every (finite) spread.
C6_StrictlyPositive ==
    ScoreReturned /\ ~args.spread.nan /\ Ge(args.total_depth, I(0))
        => Gt(ret.value, I(0))

\* C6 amended: for every finite spread and every non-negative total_depth the
\* score is non-negative; it is 0 when total_depth = 0 and strictly positive
\* when total_depth >= 1; for spread <= 0 it is total_depth / 1e-6.
C6_NonNegative ==
    ScoreReturned /\ ~args.spread.nan /\ Ge(args.total_depth, I(0)) =>
        /\ Ge(ret.value, I(0))
        /\ (args.total_depth = I(0) => ret.value = I(0))
        /\ (Ge(args.total_depth, I(1)) => Gt(ret.value, I(0)))
        /\ (Le(args.spread, I(0)) => ret.value = Mul(args.total_depth, I(1000000)))

C6_Witness ==
    /\ ScoreReturned
    /\ Lt(args.spread, I(0))
    /\ Ge(args.total_depth, I(1))
    /\ Gt(ret.value, I(0))

-----------------------------------------------------------------------------
(* Properties of compute_book_metrics, under SpecBook *)

BookReturned == pc = "returned" /\ args.fn = "compute_book_metrics"

NoBids == \A k \in DOMAIN args.book : args.book[k].side # "bid"
NoAsks == \A k \in DOMAIN args.book : args.book[k].side # "ask"

\* C3 as stated: a book with no bid level or no ask level makes
\* compute_book_metrics fail, and a returned record never holds a NaN
\* best_bid, best_ask, spread or mid.
C3_FailsOnMissingSide ==
    BookReturned =>
        /\ (NoBids \/ NoAsks => ret.status = "raised")
        /\ (ret.status = "returned" =>
               /\ ~ret.value.best_bid.nan /\ ~ret.value.best_ask.nan
               /\ ~ret.value.spread.nan /\ ~ret.value.mid.nan)

\* C7 as stated: imbalance is in [-1, 1] and is 0 exactly when total_depth = 0.
C7_ZeroIffNoDepth ==
    BookReturned /\ ~NoBids /\ ~NoAsks =>
        /\ Ge(ret.value.imbalance, I(-1)) /\ Le(ret.value.imbalance, I(1))
        /\ (ret.value.imbalance = I(0) <=> ret.value.total_depth = 0)

\* C7 amended: for a book with at least one bid and one ask level and
\* non-negative sizes, imbalance is in [-1, 1]; it is 0 when total_depth = 0,
\* and in general exactly when bid_depth = ask_depth.
C7_ZeroIffBalanced ==
    BookReturned /\ ~NoBids /\ ~NoAsks =>
        /\ ret.status = "returned"
        /\ Ge(ret.value.imbalance, I(-1)) /\ Le(ret.value.imbalance, I(1))
        /\ (ret.value.total_depth = 0 => ret.value.imbalance = I(0))
        /\ (ret.value.imbalance = I(0) <=> ret.value.bid_depth = ret.value.ask_depth)

\* A balanced book with depth.
C7_Witness ==
    /\ BookReturned /\ ~NoBids /\ ~NoAsks
    /\ ret.value.bid_depth = ret.value.ask_depth
    /\ ret.value.total_depth > 0
    /\ ret.value.imbalance = I(0)

-----------------------------------------------------------------------------
(* Properties of assess_liquidity_risk, under SpecRisk *)

RiskReturned == pc = "returned" /\ args.fn = "assess_liquidity_risk"

Aligned ==
    /\ Len(args.spreads) = Len(args.liq_scores)
    /\ Len(args.spreads) = Len(args.regimes)

SomeEmpty == args.spreads = <<>> \/ args.liq_scores = <<>> \/ args.regimes = <<>>

\* the level the specification's ordered rules give
LevelByRules(frac_stressed, avg_spread, avg_liq_score) ==
    CASE Gt(frac_stressed, R(2, 5)) \/ Gt(avg_spread, R(4, 5)) \/ Lt(avg_liq_score, I(150))
            -> "high"
      [] /\ ~(Gt(frac_stressed, R(2, 5)) \/ Gt(avg_spread, R(4, 5)) \/ Lt(avg_liq_score, I(150)))
         /\ (Gt(frac_stressed, R(1, 5)) \/ Gt(avg_spread, R(1, 2)) \/ Lt(avg_liq_score, I(250)))
            -> "medium"
      [] OTHER -> "low"

\* the last k elements of seq, 0 <= k <= Len(seq)
LastK(seq, k) == [j \in 1 .. k |-> seq[Len(seq) - k + j]]

Min(a, b) == IF a < b THEN a ELSE b

\* the regimes the call aggregates when lookback >= 1
RegimeWindow == LastK(args.regimes, Min(args.lookback, Len(args.regimes)))

\* C2: risk_level is "high" if frac_stressed > 0.4 or avg_spread > 0.8 or
\* avg_liq_score < 150, else "medium" if frac_stressed > 0.2 or avg_spread >
\* 0.5 or avg_liq_score < 250, else "low"; a window with more than 40% of its
\* labels "stressed" gives "high" whatever the spreads and scores are.
C2_RiskLevelByOrderedRules ==
    RiskReturned /\ ret.status = "returned" =>
        /\ ret.value.risk_level =
              LevelByRules(ret.value.frac_stressed, ret.value.avg_spread,
                           ret.value.avg_liq_score)
        /\ (/\ args.lookback >= 1
            /\ 10 * Count(RegimeWindow, "stressed") > 4 * Len(RegimeWindow)
            => ret.value.risk_level = "high")

\* More than 40% stressed, with spreads and scores that alone would give "low".
C2_Witness ==
    /\ RiskReturned /\ ret.status = "returned"
    /\ args.lookback >= 1
    /\ 10 * Count(RegimeWindow, "stressed") > 4 * Len(RegimeWindow)
    /\ Count(RegimeWindow, "stressed") < Len(RegimeWindow)
    /\ Le(ret.value.avg_spread, R(1, 2))
    /\ Ge(ret.value.avg_liq_score, I(250))
    /\ ret.value.risk_level = "high"

\* C4 as stated: empty sequences, or sequences of unequal length, make
\* assess_liquidity_risk fail; it never returns an assessment of misaligned
\* sequences.
C4_FailsOnEmptyOrMisaligned ==
    RiskReturned /\ args.lookback >= 1 /\ (SomeEmpty \/ ~Aligned)
        => ret.status = "raised"

\* what the specification asks of the aggregates of window w
StatsOver(spreads_w, liq_w, regimes_w) ==
    [avg_spread |-> Div(SumSeq(spreads_w), I(Len(spreads_w))),
     avg_liq_score |-> Div(SumSeq(liq_w), I(Len(liq_w))),
     frac_stressed |-> R(Count(regimes_w, "stressed"), Len(regimes_w)),
     frac_high_liq |-> R(Count(regimes_w, "high_liquidity"), Len(regimes_w))]

StatsOf(v) ==
    [avg_spread |-> v.avg_spread, avg_liq_score |-> v.avg_liq_score,
     frac_stressed |-> v.frac_stressed, frac_high_liq |-> v.frac_high_liq]

\* C5: for non-empty aligned sequences of length N and lookback L >= 1 the
\* call returns the aggregates of exactly the last min(L, N) elements of each
\* sequence; with L > N it returns, and its aggregates and risk_level are
\* those of the call with lookback = N.
C5_LookbackClamps ==
    RiskReturned /\ Aligned /\ ~SomeEmpty /\ args.lookback >= 1 =>
        LET N == Len(args.spreads)
            k == Min(args.lookback, N)
            full == assess_liquidity_risk(args.spreads, args.liq_scores,
                                          args.regimes, N)
        IN  /\ ret.status = "returned"
            /\ StatsOf(ret.value) =
                  StatsOver(LastK(args.spreads, k), LastK(args.liq_scores, k),
                            LastK(args.regimes, k))
            /\ (args.lookback > N =>
                  /\ StatsOf(ret.value) = StatsOf(full.value)
                  /\ ret.value.risk_level = full.value.risk_level)

\* A lookback beyond the end of a series whose elements differ.
C5_Witness ==
    /\ RiskReturned /\ Aligned /\ ~SomeEmpty
    /\ args.lookback > Len(args.spreads)
    /\ Len(args.spreads) >= 2
    /\ args.spreads[1] # args.spreads[2]
    /\ ret.status = "returned"

\* A shorter lookback than the series: the window is a proper tail.
C5_WitnessProperTail ==
    /\ RiskReturned /\ Aligned /\ ~SomeEmpty
    /\ args.lookback >= 1 /\ args.lookback < Len(args.spreads)
    /\ args.spreads[1] # args.spreads[Len(args.spreads)]
    /\ ret.status = "returned"

=============================================================================
